---- MODULE Spec2Model ----
(***************************************************************************)
(* Model of src/main.js: the batch scheduler of the entry routine, the     *)
(* per-query session loop runQuery, the e-mail extractor and the token     *)
(* acquisition solveRecaptchaToken.                                        *)
(***************************************************************************)
EXTENDS Integers, Sequences, FiniteSets, TLC

\* ------------------------------------------------------------------ bounds
MaxQueries == 3
MaxConc == 2
MaxPages == 4
MaxWords == 2

\* ------------------------------------------------------- program constants
CaptchaLimit == 3
PollLimit == 20

\* ------------------------------------------------------------ characters
LowerAlphabet == <<"a","b","c","d","e","f","g","h","i","j","k","l","m",
                   "n","o","p","q","r","s","t","u","v","w","x","y","z">>

UpperAlphabet == <<"A","B","C","D","E","F","G","H","I","J","K","L","M",
                   "N","O","P","Q","R","S","T","U","V","W","X","Y","Z">>

Range(s) == {s[k] : k \in DOMAIN s}

Letters == Range(LowerAlphabet) \cup Range(UpperAlphabet)

Digits == {"0","1","2","3","4","5","6","7","8","9"}

\* [a-zA-Z0-9._%+-]
LocalChars == Letters \cup Digits \cup {".", "_", "%", "+", "-"}

\* [a-zA-Z0-9.-]
DomainChars == Letters \cup Digits \cup {".", "-"}

\* String.prototype.toLowerCase on one character
LowerChar(c) ==
  IF c \in Range(UpperAlphabet)
  THEN LowerAlphabet[CHOOSE k \in DOMAIN UpperAlphabet : UpperAlphabet[k] = c]
  ELSE c

toLowerCase(s) == [k \in DOMAIN s |-> LowerChar(s[k])]

\* ------------------------------------------------------------ EMAIL_REGEX
\* Last index of the maximal run of characters of class cls starting at
\* position from (from - 1 when text[from] is not in cls).
RECURSIVE RunEnd(_, _, _)
RunEnd(text, from, cls) ==
  IF from <= Len(text) /\ text[from] \in cls
  THEN RunEnd(text, from + 1, cls)
  ELSE from - 1

\* The dots of the domain run that can be the "\." of the pattern: at least
\* one domain character before, at least two letters after.
TldDots(text, d0, dEnd) ==
  {p \in (d0 + 1)..dEnd :
     text[p] = "." /\ RunEnd(text, p + 1, Letters) >= p + 2}

Max(S) == CHOOSE x \in S : \A y \in S : y <= x

\* End index of the match of EMAIL_REGEX that starts at s, 0 when there is
\* none.  The quantifiers are greedy: the local part is the maximal run and
\* has to be followed by "@"; the domain backtracks to the last usable dot.
MatchAt(text, s) ==
  LET r == RunEnd(text, s, LocalChars)
      d0 == r + 2
      dEnd == RunEnd(text, d0, DomainChars)
  IN IF r < s \/ r + 1 > Len(text) \/ text[r + 1] # "@" THEN 0
     ELSE IF TldDots(text, d0, dEnd) = {} THEN 0
     ELSE RunEnd(text, Max(TldDots(text, d0, dEnd)) + 1, Letters)

\* text.match(EMAIL_REGEX) with the g flag: the matches from left to right,
\* each search resuming after the previous match.
RECURSIVE MatchAll(_, _)
MatchAll(text, pos) ==
  IF pos > Len(text) THEN <<>>
  ELSE IF MatchAt(text, pos) = 0 THEN MatchAll(text, pos + 1)
  ELSE <<SubSeq(text, pos, MatchAt(text, pos))>>
         \o MatchAll(text, MatchAt(text, pos) + 1)

\* RegExp.prototype.test for a literal pattern: pat occurs in s
Contains(s, pat) ==
  \E k \in 1..(Len(s) - Len(pat) + 1) : SubSeq(s, k, k + Len(pat) - 1) = pat

DenyPatterns ==
  { <<"e","x","a","m","p","l","e",".","c","o","m">>,
    <<"e","x","a","m","p","l","e",".","o","r","g">>,
    <<"e","x","a","m","p","l","e",".","n","e","t">>,
    <<"n","o","r","e","p","l","y","@">>,
    <<"n","o","-","r","e","p","l","y","@">> }

Denied(e) == \E pat \in DenyPatterns : Contains(e, pat)

NotDenied(e) == ~Denied(e)

\* extractEmailsFromPage on a page whose body text is text
extractEmails(text) ==
  LET matches == MatchAll(text, 1)
      lowered == [k \in DOMAIN matches |-> toLowerCase(matches[k])]
  IN SelectSeq(lowered, NotDenied)

\* ------------------------------------------------------- page texts (inputs)
W_Ab == <<"A","@","b",".","i","o">>

W_ab == <<"a","@","b",".","i","o">>

W_cd == <<"c","@","d",".","i","o">>

W_noreply == <<"n","o","r","e","p","l","y","@","b",".","i","o">>

Words == {W_Ab, W_ab, W_cd, W_noreply}

RECURSIVE JoinWords(_)
JoinWords(ws) ==
  IF ws = <<>> THEN <<>>
  ELSE IF Len(ws) = 1 THEN ws[1]
  ELSE ws[1] \o <<" ">> \o JoinWords(Tail(ws))

\* every body text of at most MaxWords space-separated words
AllTexts == {JoinWords(ws) : ws \in UNION {[1..k -> Words] : k \in 0..MaxWords}}

\* the texts the scheduler specification lets a page show
FewTexts == {W_ab}

\* extractEmailsFromPage on each of the texts, computed once
Extracted == [text \in AllTexts |-> extractEmails(text)]

\* ------------------------------------------------------------------ state
VARIABLES
  queries,      \* the query list readCSV resolved to
  CONCURRENCY,  \* the concurrency ceiling
  supabase,     \* whether a structured-store client was configured
  pageLimit,    \* environment: per query, the number of result pages
  watched,      \* the queries whose session is observed in detail
  pageTexts,    \* environment: the body texts a page may show
  mainpc,       \* position of the entry routine
  idx,          \* entry routine: index of the first query of the batch
  browser,      \* the shared browser process: "none", "open", "closed"
  session,      \* per query: the state of its runQuery call
  hist,         \* per query: what its session did so far (observer)
  batches,      \* the sizes of the batches started so far (observer)
  token,        \* one call of solveRecaptchaToken
  captcha,      \* one call of maybeHandleCaptcha
  pager,        \* one call of goToNextPage
  extractor,    \* one call of extractEmailsFromPage
  csv,          \* the flat output file and what was appended to it
  config        \* the configuration options and the loop they drive

vars == <<queries, CONCURRENCY, supabase, pageLimit, watched, pageTexts,
          mainpc, idx, browser, session, hist, batches, token, captcha,
          pager, extractor, csv, config>>

inputs == <<queries, CONCURRENCY, supabase, pageLimit, watched, pageTexts>>

\* what the entry routine and the sessions leave alone
env == <<inputs, token, captcha, pager, extractor, csv, config>>

main == <<mainpc, idx, browser, batches>>

QueryIds == 1..MaxQueries

N == Len(queries)

Terminal == {"resolved", "rejected"}

Running(i) == session[i].pc \notin ({"idle"} \cup Terminal)

NewSession ==
  [pc |-> "idle", context |-> "none", consecutiveCaptcha |-> 0, pageNum |-> 1,
   collected |-> {}]

NewHist ==
  [started |-> 0, closes |-> 0, detections |-> 0, extractions |-> 0,
   paginations |-> 0, allUnsolved |-> TRUE, allNext |-> TRUE,
   firstNext |-> "none", lastClass |-> "none", lastStepFail |-> FALSE,
   firstFailAt |-> 0, errAt |-> "none", outcome |-> "none",
   handed |-> <<>>, writeFailed |-> FALSE, run |-> 0]

\* the null a call without a token returns
Null == [type |-> "none", field |-> "null"]

\* solveRecaptchaToken before it is called
NoCall ==
  [pc |-> "idle", apiKey |-> FALSE, typeHint |-> "none", types |-> <<>>,
   t |-> 1, i |-> 0, result |-> Null, submitted |-> <<>>,
   answers |-> <<>>, polls |-> 0]

\* maybeHandleCaptcha before it is called
NoCaptcha ==
  [pc |-> "idle", apiKey |-> FALSE, extension |-> FALSE, helper |-> FALSE,
   detected |-> FALSE, sitekey |-> FALSE, helperCalled |-> FALSE,
   failedAt |-> "none", result |-> [present |-> FALSE, solved |-> FALSE]]

\* goToNextPage before it is called
NoPager ==
  [pc |-> "idle", sel |-> 1, tried |-> <<>>, clicks |-> 0,
   clickFailed |-> FALSE, waitFailed |-> FALSE, result |-> FALSE]

\* extractEmailsFromPage before it is called
NoExtractor ==
  [pc |-> "idle", body |-> <<>>, text |-> <<>>, emails |-> <<>>,
   threw |-> FALSE]

\* a number of the program: an integer or NaN
Num(n) == [nan |-> FALSE, val |-> n]

NaN == [nan |-> TRUE, val |-> 0]

\* an option of process.env: unset, or set to a text
Unset == [set |-> FALSE, text |-> <<>>]

\* the configuration before the module is evaluated
NoConfig ==
  [pc |-> "idle", env |-> [BROWSERS |-> Unset, TABS_PER_BROWSER |-> Unset,
                           CONCURRENCY |-> Unset],
   BROWSERS |-> NaN, TABS_PER_BROWSER |-> NaN, CONCURRENCY |-> NaN,
   idx |-> Num(0), started |-> {}]

\* the output file before the header check
NoCsv ==
  [pc |-> "idle", exists |-> FALSE, lines |-> <<>>, base |-> 0,
   handed |-> <<>>, appends |-> 0]

\* no helper is being followed on its own
InitCalls ==
  /\ pager = NoPager
  /\ extractor = NoExtractor
  /\ csv = NoCsv

InitMain ==
  /\ mainpc = "readCSV"
  /\ idx = 0
  /\ browser = "none"
  /\ session = [i \in QueryIds |-> NewSession]
  /\ hist = [i \in QueryIds |-> NewHist]
  /\ batches = <<>>

\* a run in which only one helper is followed: no query is started
InitHelper ==
  /\ queries = <<1>>
  /\ CONCURRENCY = 1
  /\ supabase = FALSE
  /\ pageLimit = [i \in QueryIds |-> 1]
  /\ watched = {}
  /\ pageTexts = FewTexts
  /\ config = NoConfig
  /\ InitMain

InitCommon ==
  /\ supabase \in BOOLEAN
  /\ config = NoConfig
  /\ token = NoCall
  /\ captcha = NoCaptcha
  /\ InitCalls
  /\ InitMain

\* one query, one session, every page text: the session loop in detail
InitSession ==
  /\ queries = <<1>>
  /\ CONCURRENCY = 1
  /\ pageLimit \in {[i \in QueryIds |-> p] : p \in 1..MaxPages}
  /\ watched = {1}
  /\ pageTexts = AllTexts
  /\ InitCommon

\* any query list and ceiling, short searches: the batch loop
InitSched ==
  /\ queries \in {[k \in 1..m |-> k] : m \in 0..MaxQueries}
  /\ CONCURRENCY \in 1..MaxConc
  /\ pageLimit = [i \in QueryIds |-> IF i = 1 THEN 2 ELSE 1]
  /\ watched = {}
  /\ pageTexts = FewTexts
  /\ InitCommon

\* ------------------------------------------------------------ entry routine
Min(a, b) == IF a < b THEN a ELSE b

Slice_OneMore(from) == {i \in 1..N : from < i /\ i <= from + CONCURRENCY + 1}

\* queries.slice(idx, idx + CONCURRENCY), as positions of the list
Slice(from) == {i \in 1..N : from < i /\ i <= from + CONCURRENCY}

AllSettled_Any(S) == \E i \in S : session[i].pc \in Terminal

\* Promise.allSettled: every promise of the batch has settled
AllSettled(S) == \A i \in S : session[i].pc \in Terminal

\* readCSV, the empty-input exit and the store connection test
ReadCSV ==
  /\ mainpc = "readCSV"
  /\ mainpc' = IF N = 0 THEN "exit" ELSE "launch"
  /\ UNCHANGED <<env, idx, browser, session, hist, batches>>

\* chromium.launch: a rejection is the fatal error of the outer handler
Launch ==
  /\ mainpc = "launch"
  /\ \E ok \in BOOLEAN :
       /\ mainpc' = IF ok THEN "batch" ELSE "exit"
       /\ browser' = IF ok THEN "open" ELSE "none"
  /\ UNCHANGED <<env, idx, session, hist, batches>>

\* slice.map(q => runQuery(browser, q)): every call runs up to its first await
StartBatch ==
  /\ mainpc = "batch"
  /\ idx < N
  /\ session' = [i \in QueryIds |->
                   IF i \in Slice(idx)
                   THEN [session[i] EXCEPT !.pc = "newContext"]
                   ELSE session[i]]
  /\ hist' = [i \in QueryIds |->
                IF i \in Slice(idx)
                THEN [hist[i] EXCEPT !.started = @ + 1]
                ELSE hist[i]]
  /\ batches' = Append(batches, Cardinality(Slice(idx)))
  /\ mainpc' = "allSettled"
  /\ UNCHANGED <<env, idx, browser>>

\* Promise.all in place of Promise.allSettled: the first rejection ends the
\* await, the finally closes the browser and the outer handler exits
AwaitBatch_PromiseAll ==
  /\ mainpc = "allSettled"
  /\ \/ /\ \E i \in Slice(idx) : session[i].pc = "rejected"
        /\ browser' = "closed"
        /\ mainpc' = "exit"
        /\ UNCHANGED idx
     \/ /\ \A i \in Slice(idx) : session[i].pc = "resolved"
        /\ idx' = idx + CONCURRENCY
        /\ mainpc' = "batch"
        /\ UNCHANGED browser
  /\ UNCHANGED <<env, session, hist, batches>>

\* await Promise.allSettled(...); idx += CONCURRENCY
AwaitBatch ==
  /\ mainpc = "allSettled"
  /\ AllSettled(Slice(idx))
  /\ idx' = idx + CONCURRENCY
  /\ mainpc' = "batch"
  /\ UNCHANGED <<env, browser, session, hist, batches>>

\* finally { await browser.close() }: a rejection is swallowed
CloseBrowser ==
  /\ mainpc = "batch"
  /\ idx >= N
  /\ browser' = "closed"
  /\ mainpc' = "done"
  /\ UNCHANGED <<env, idx, session, hist, batches>>

\* ------------------------------------------------------------------ runQuery
\* what is recorded of a session that is not watched
Coarse(old, new) ==
  [old EXCEPT !.started = new.started, !.closes = new.closes,
              !.outcome = new.outcome]

\* collected as one module-level Set instead of a local of runQuery
Step_SharedCollected(i, s, h) ==
  /\ session' = [j \in QueryIds |->
                   IF j = i THEN s
                   ELSE [session[j] EXCEPT !.collected = s.collected]]
  /\ hist' = [hist EXCEPT ![i] = IF i \in watched THEN h ELSE Coarse(@, h)]
  /\ UNCHANGED <<env, main>>

Step(i, s, h) ==
  /\ session' = [session EXCEPT ![i] = s]
  /\ hist' = [hist EXCEPT ![i] = IF i \in watched THEN h ELSE Coarse(@, h)]
  /\ UNCHANGED <<env, main>>

Quiet(h) == [h EXCEPT !.lastStepFail = FALSE, !.writeFailed = FALSE]

\* firstFailAt: the iteration (count of detection calls) of the first failure
\* a helper swallowed, 0 while there was none
Failed(h, bad, iter) ==
  [h EXCEPT !.lastStepFail = bad,
            !.writeFailed = FALSE,
            !.firstFailAt = IF bad /\ @ = 0 THEN iter ELSE @]

\* browser.newContext: a rejection rejects runQuery
NewContext(i) ==
  /\ session[i].pc = "newContext"
  /\ \E ok \in BOOLEAN :
       IF ok
       THEN Step(i, [session[i] EXCEPT !.pc = "newPage", !.context = "open"],
                 Quiet(hist[i]))
       ELSE Step(i, [session[i] EXCEPT !.pc = "rejected"],
                 [Quiet(hist[i]) EXCEPT !.outcome = "rejected"])

\* context.newPage: outside every try, a rejection rejects runQuery
NewPage(i) ==
  /\ session[i].pc = "newPage"
  /\ \E ok \in BOOLEAN :
       IF ok
       THEN Step(i, [session[i] EXCEPT !.pc = "goto"], Quiet(hist[i]))
       ELSE Step(i, [session[i] EXCEPT !.pc = "rejected"],
                 [Quiet(hist[i]) EXCEPT !.outcome = "rejected"])

\* page.goto in its own try/catch, then collected, pageNum, consecutiveCaptcha
Goto(i) ==
  /\ session[i].pc = "goto"
  /\ Step(i, [session[i] EXCEPT !.pc = "maybeHandleCaptcha",
                                !.collected = {}, !.pageNum = 1,
                                !.consecutiveCaptcha = 0],
          Quiet(hist[i]))

\* what a call of maybeHandleCaptcha can meet on the page
CaptchaConds == {"clear", "consentAccepted", "solved", "unsolved", "threw"}

\* the { present, solved } it returns
maybeHandleCaptcha(cond) ==
  CASE cond = "consentAccepted" -> [present |-> TRUE, solved |-> TRUE]
    [] cond = "solved" -> [present |-> TRUE, solved |-> TRUE]
    [] cond = "unsolved" -> [present |-> TRUE, solved |-> FALSE]
    [] cond = "clear" -> [present |-> FALSE, solved |-> FALSE]
    [] cond = "threw" -> [present |-> FALSE, solved |-> FALSE]

Unresolved(r) == r.present /\ ~r.solved

NextConsecutive_NoReset(r, cc) == IF Unresolved(r) THEN cc + 1 ELSE cc

\* consecutiveCaptcha++ or consecutiveCaptcha = 0
NextConsecutive(r, cc) == IF Unresolved(r) THEN cc + 1 ELSE 0

TooMany_OffByOne(cc) == cc > CaptchaLimit

\* if (consecutiveCaptcha >= 3) break
TooMany(cc) == cc >= CaptchaLimit

AfterCaptcha_SkipExtract(r, cc) ==
  IF Unresolved(r) /\ TooMany(cc) THEN "finally"
  ELSE IF Unresolved(r) THEN "goToNextPage"
  ELSE IF r.present /\ r.solved THEN "waitForTimeout"
  ELSE "extractEmailsFromPage"

\* where the loop body goes after the challenge step
AfterCaptcha(r, cc) ==
  IF Unresolved(r) /\ TooMany(cc) THEN "finally"
  ELSE IF r.present /\ r.solved THEN "waitForTimeout"
  ELSE "extractEmailsFromPage"

DetectClass(r) ==
  IF Unresolved(r) THEN "unresolved"
  ELSE IF r.present THEN "resolved" ELSE "clear"

Detect(i) ==
  /\ session[i].pc = "maybeHandleCaptcha"
  /\ \E cond \in CaptchaConds :
       LET r == maybeHandleCaptcha(cond)
           cc == NextConsecutive(r, session[i].consecutiveCaptcha)
           to == AfterCaptcha(r, cc)
       IN Step(i, [session[i] EXCEPT !.consecutiveCaptcha = cc, !.pc = to],
               [Failed(hist[i], cond = "threw", hist[i].detections + 1) EXCEPT
                  !.detections = @ + 1,
                  !.allUnsolved = @ /\ Unresolved(r),
                  !.lastClass = DetectClass(r),
                  !.run = IF DetectClass(r) = "unresolved" THEN @ + 1 ELSE 0,
                  !.outcome = IF to = "finally" THEN "blocked" ELSE @])

\* where a rejection of the recovery delay goes: the catch of the outer try
AfterDelayError == "finally"

\* page.waitForTimeout after a resolved challenge
RecoveryDelay(i) ==
  /\ session[i].pc = "waitForTimeout"
  /\ \E ok \in BOOLEAN :
       IF ok
       THEN Step(i, [session[i] EXCEPT !.pc = "extractEmailsFromPage"],
                 Quiet(hist[i]))
       ELSE Step(i, [session[i] EXCEPT !.pc = AfterDelayError],
                 [Quiet(hist[i]) EXCEPT !.outcome = "error",
                                        !.errAt = "waitForTimeout"])

\* emails.filter(e => !collected.has(e))
NewEmails(emails, collected) ==
  SelectSeq(emails, LAMBDA e : e \notin collected)

BagAdd(b, e) ==
  IF e \in DOMAIN b THEN [b EXCEPT ![e] = @ + 1] ELSE (e :> 1) @@ b

\* the rows handed to appendToCSV and saveToSupabase, counted per identity
RECURSIVE HandRows(_, _)
HandRows(b, rows) ==
  IF rows = <<>> THEN b ELSE HandRows(BagAdd(b, Head(rows)), Tail(rows))

AfterExtractError_Propagates(newEmails) == "finally"

\* where a failed page.evaluate of the extractor goes: it returns []
AfterExtractError(newEmails) ==
  IF newEmails # <<>> THEN "saveToSupabase" ELSE "goToNextPage"

AfterAppendError_Propagates == "finally"

\* where a throwing fs.appendFileSync goes: appendToCSV catches and logs it
AfterAppendError == "saveToSupabase"

\* extractEmailsFromPage, the filter, collected.add and appendToCSV
Extract(i) ==
  /\ session[i].pc = "extractEmailsFromPage"
  /\ \E text \in pageTexts, evalOk \in BOOLEAN, csvOk \in BOOLEAN :
       LET emails == IF evalOk THEN Extracted[text] ELSE <<>>
           newEmails == NewEmails(emails, session[i].collected)
           bad == ~evalOk \/ (newEmails # <<>> /\ ~csvOk)
       IN \* appendToCSV is not called without rows, and the text of a page
          \* whose evaluate rejected is never seen
          /\ (newEmails = <<>> => csvOk)
          /\ (~evalOk => text = W_ab)
          /\ Step(i, [session[i] EXCEPT
                        !.collected = @ \cup Range(newEmails),
                        !.pc = IF ~evalOk THEN AfterExtractError(newEmails)
                               ELSE IF newEmails = <<>> THEN "goToNextPage"
                               ELSE IF csvOk THEN "saveToSupabase"
                               ELSE AfterAppendError],
                  [Failed(hist[i], bad, hist[i].detections) EXCEPT
                     !.extractions = @ + 1,
                     !.handed = HandRows(@, newEmails),
                     !.writeFailed = (newEmails # <<>> /\ ~csvOk)])

\* await saveToSupabase(rows).catch(() => {}): an error value is logged, a
\* thrown insert is caught inside saveToSupabase
SaveToSupabase(i) ==
  /\ session[i].pc = "saveToSupabase"
  /\ \E res \in {"skipped", "inserted", "error", "threw"} :
       /\ (res = "skipped") = ~supabase
       /\ Step(i, [session[i] EXCEPT !.pc = "goToNextPage"],
               [Failed(hist[i], res \in {"error", "threw"},
                       hist[i].detections) EXCEPT
                  !.writeFailed = res \in {"error", "threw"}])

AfterNextPage_IgnoresResult(hasNext) == "sleep"

\* if (!hasNext) break; pageNum++
AfterNextPage(hasNext) == IF hasNext THEN "sleep" ELSE "finally"

GoToNextPage(i) ==
  /\ session[i].pc = "goToNextPage"
  /\ \E hasNext \in BOOLEAN :
       /\ (hasNext => session[i].pageNum < pageLimit[i])
       /\ LET to == AfterNextPage(hasNext)
          IN Step(i, [session[i] EXCEPT
                        !.pc = to,
                        !.pageNum = IF to = "sleep" THEN @ + 1 ELSE @],
                  [Quiet(hist[i]) EXCEPT
                     !.paginations = @ + 1,
                     !.allNext = @ /\ hasNext,
                     !.firstNext = IF @ = "none"
                                   THEN (IF hasNext THEN "next" ELSE "noNext")
                                   ELSE @,
                     !.outcome = IF to = "finally" THEN "exhausted" ELSE @])

\* await sleep(1500 + ...)
Sleep(i) ==
  /\ session[i].pc = "sleep"
  /\ Step(i, [session[i] EXCEPT !.pc = "maybeHandleCaptcha"], Quiet(hist[i]))

\* finally { try { await context.close() } catch {} }
Finally(i) ==
  /\ session[i].pc = "finally"
  /\ Step(i, [session[i] EXCEPT !.pc = "resolved", !.context = "closed"],
          [Quiet(hist[i]) EXCEPT !.closes = @ + 1])

\* ------------------------------------------------------- solveRecaptchaToken
\* the values typeHint can take; "none" is null
Hints == {"none", "recaptcha3", "recaptcha", "recaptcha_enterprise", "hcaptcha"}

Fallback == <<"recaptcha3", "recaptcha", "recaptcha_enterprise">>

RECURSIVE PushMissing(_, _)
PushMissing(types, more) ==
  IF more = <<>> THEN types
  ELSE PushMissing(IF Head(more) \in Range(types) THEN types
                   ELSE Append(types, Head(more)),
                   Tail(more))

\* const types = []; if (typeHint) ...; for (...) if (!types.includes(t)) ...
CandidateTypes(typeHint) ==
  PushMissing(IF typeHint # "none" THEN <<typeHint>> ELSE <<>>, Fallback)

\* what POST /token can answer: a token, a ticket id, a 2xx body with
\* neither, 400 "Invalid type", 429, another non-2xx, or fetch rejects
PostResponses ==
  {"token", "ticket", "empty", "invalidType", "rateLimited", "otherStatus",
   "threw"}

\* what a poll GET can answer
PollResponses ==
  {"token", "solution", "data", "pending", "rateLimited", "otherStatus",
   "threw"}

\* the branch of the loop body a POST answer takes
AfterPost(resp) ==
  CASE resp = "token" -> "return"
    [] resp = "ticket" -> "poll"
    [] OTHER -> "next"

\* the branch a poll answer takes
AfterPoll(resp) ==
  IF resp \in {"token", "solution", "data"} THEN "return" ELSE "continue"

TokenStep(t) ==
  /\ token' = t
  /\ UNCHANGED <<inputs, config, main, session, hist, captcha, pager,
               extractor, csv>>

\* the credential test and the candidate list
SolveStart ==
  /\ token.pc = "called"
  /\ TokenStep(IF token.apiKey
               THEN [token EXCEPT !.pc = "post",
                                  !.types = CandidateTypes(token.typeHint),
                                  !.t = 1]
               ELSE [token EXCEPT !.pc = "returned", !.result = Null])

\* the try/catch around the loop instead of inside it
PostOutcome_ThrowEndsCall(sent, type, resp) ==
  CASE resp = "threw" -> [sent EXCEPT !.pc = "returned", !.result = Null]
    [] AfterPost(resp) = "return" ->
         [sent EXCEPT !.pc = "returned",
                      !.result = [type |-> type, field |-> "token"]]
    [] AfterPost(resp) = "poll" ->
         [sent EXCEPT !.pc = "poll", !.i = 0, !.polls = 0]
    [] OTHER -> [sent EXCEPT !.t = @ + 1]

\* the call after the answer resp to the POST for type: return data.token,
\* enter the poll loop, or go on to the next type
PostOutcome(sent, type, resp) ==
  CASE AfterPost(resp) = "return" ->
         [sent EXCEPT !.pc = "returned",
                      !.result = [type |-> type, field |-> "token"]]
    [] AfterPost(resp) = "poll" ->
         [sent EXCEPT !.pc = "poll", !.i = 0, !.polls = 0]
    [] OTHER -> [sent EXCEPT !.t = @ + 1]

\* one pass of for (const t of types) up to its first answer
PostToken ==
  /\ token.pc = "post"
  /\ token.t <= Len(token.types)
  /\ \E resp \in PostResponses :
       LET type == token.types[token.t]
           sent == [token EXCEPT !.submitted = Append(@, type),
                                 !.answers = Append(@, resp)]
       IN TokenStep(PostOutcome(sent, type, resp))

NextPoll_FailuresFree(i, resp) ==
  IF resp \in {"rateLimited", "otherStatus", "threw"} THEN i ELSE i + 1

\* the i++ of the poll loop: continue and the empty catch both reach it
NextPoll(i, resp) == i + 1

\* one pass of for (let i = 0; i < 20; i++): the last pass without a token
\* leaves the loop and moves to the next type
PollTicket ==
  /\ token.pc = "poll"
  /\ token.i < PollLimit
  /\ \E resp \in PollResponses :
       LET polled == [token EXCEPT !.polls = @ + 1,
                                  !.i = NextPoll(@, resp)]
       IN TokenStep(
            IF AfterPoll(resp) = "return"
            THEN [polled EXCEPT !.pc = "returned",
                                !.result = [type |-> token.types[token.t],
                                            field |-> resp]]
            ELSE IF polled.i < PollLimit
            THEN polled
            ELSE [polled EXCEPT !.pc = "post", !.t = @ + 1])

\* after the loop: return null
TypesExhausted ==
  /\ token.pc = "post"
  /\ token.t > Len(token.types)
  /\ TokenStep([token EXCEPT !.pc = "returned", !.result = Null])

InitToken ==
  /\ InitHelper
  /\ InitCalls
  /\ captcha = NoCaptcha
  /\ token \in {[NoCall EXCEPT !.pc = "called", !.apiKey = k, !.typeHint = h] :
                  k \in BOOLEAN, h \in Hints}

NextToken ==
  \/ SolveStart
  \/ PostToken
  \/ PollTicket
  \/ TypesExhausted

SpecToken == InitToken /\ [][NextToken]_vars

\* every awaited fetch and sleep settles, so the call takes its next step
SpecTokenFair == SpecToken /\ WF_vars(NextToken)

\* -------------------------------------------------------- maybeHandleCaptcha
CaptchaStep(c) ==
  /\ captcha' = c
  /\ UNCHANGED <<inputs, config, main, session, hist, pager, extractor, csv>>

Return(c, present, solved) ==
  [c EXCEPT !.pc = "returned",
            !.result = [present |-> present, solved |-> solved]]

\* const url = page.url() and the consent test on it; urlMatch: the url
\* matches /recaptcha|challenge|sorry/
CaptchaUrl ==
  /\ captcha.pc = "start"
  /\ \E consent \in BOOLEAN, urlMatch \in BOOLEAN :
       CaptchaStep([captcha EXCEPT
                      !.pc = IF consent THEN "tryAcceptConsent"
                             ELSE IF urlMatch THEN "sitekey" ELSE "detect",
                      !.detected = urlMatch])
  /\ UNCHANGED token

\* tryAcceptConsent: it swallows its failures and answers true or false
AcceptConsent ==
  /\ captcha.pc = "tryAcceptConsent"
  /\ \E accepted \in BOOLEAN :
       CaptchaStep(IF accepted THEN Return(captcha, TRUE, TRUE)
                   ELSE [captcha EXCEPT !.pc = IF captcha.detected
                                               THEN "sitekey" ELSE "detect"])
  /\ UNCHANGED token

\* page.$('div.g-recaptcha') || page.$('iframe[src*="recaptcha"]'): a
\* rejection goes to the outer catch, which reports no challenge
DetectWidget ==
  /\ captcha.pc = "detect"
  /\ \E found \in {"widget", "nothing", "threw"} :
       CaptchaStep(
         CASE found = "widget" -> [captcha EXCEPT !.pc = "sitekey",
                                                  !.detected = TRUE]
           [] found = "nothing" -> Return(captcha, FALSE, FALSE)
           [] found = "threw" ->
                Return([captcha EXCEPT !.failedAt = "detect"], FALSE, FALSE))
  /\ UNCHANGED token

\* the two tests on a missing sitekey: the extension wait, or unsolved
AfterNoSitekey(c) ==
  IF c.extension THEN [c EXCEPT !.pc = "extensionWait"]
  ELSE Return(c, TRUE, FALSE)

\* the sitekey from the DOM, the frame urls or the script urls; failures
\* of the three scans are swallowed and leave it null
RecoverSitekey ==
  /\ captcha.pc = "sitekey"
  /\ \E at \in {"none", "dom", "frame", "script"} :
       CaptchaStep(
         IF at = "none" THEN AfterNoSitekey(captcha)
         ELSE [captcha EXCEPT !.sitekey = TRUE,
                              !.pc = IF captcha.helper THEN "helper"
                                     ELSE "typeHint"])
  /\ UNCHANGED token

\* what a rejected page.waitForTimeout(4000) leads to: the outer catch
ExtensionWaitError(c) ==
  Return([c EXCEPT !.failedAt = "extensionWait"], FALSE, FALSE)

\* await page.waitForTimeout(4000); return { present: true, solved: false }
ExtensionWait ==
  /\ captcha.pc = "extensionWait"
  /\ \E ok \in BOOLEAN :
       CaptchaStep(IF ok THEN Return(captcha, TRUE, FALSE)
                   ELSE ExtensionWaitError(captcha))
  /\ UNCHANGED token

\* await NopechaHelper.solveRecaptchaV2(page): solved unless it throws
HelperSolve ==
  /\ captcha.pc = "helper"
  /\ \E ok \in BOOLEAN :
       CaptchaStep(
         IF ok THEN Return([captcha EXCEPT !.helperCalled = TRUE], TRUE, TRUE)
         ELSE [captcha EXCEPT !.helperCalled = TRUE, !.pc = "typeHint"])
  /\ UNCHANGED token

\* the type hint, then the call of solveRecaptchaToken
CallSolve ==
  /\ captcha.pc = "typeHint"
  /\ \E h \in {"none", "recaptcha3"} :
       /\ token' = [NoCall EXCEPT !.pc = "called", !.apiKey = captcha.apiKey,
                                  !.typeHint = h]
       /\ CaptchaStep([captcha EXCEPT !.pc = "solveRecaptchaToken"])

\* if (token) ... else return { present: true, solved: false }
TokenBack ==
  /\ captcha.pc = "solveRecaptchaToken"
  /\ token.pc = "returned"
  /\ CaptchaStep(IF token.result # Null THEN [captcha EXCEPT !.pc = "inject"]
                 ELSE Return(captcha, TRUE, FALSE))
  /\ UNCHANGED token

\* a rejection of the injection or of the wait after it: the catch around
\* the token flow
TokenFlowError(c, at) == Return([c EXCEPT !.failedAt = at], TRUE, FALSE)

\* await page.evaluate(tok => ..., token)
InjectToken ==
  /\ captcha.pc = "inject"
  /\ \E ok \in BOOLEAN :
       CaptchaStep(IF ok THEN [captcha EXCEPT !.pc = "wait600"]
                   ELSE TokenFlowError(captcha, "inject"))
  /\ UNCHANGED token

\* await page.waitForTimeout(600)
WaitAfterInject ==
  /\ captcha.pc = "wait600"
  /\ \E ok \in BOOLEAN :
       CaptchaStep(IF ok THEN [captcha EXCEPT !.pc = "resubmit"]
                   ELSE TokenFlowError(captcha, "wait600"))
  /\ UNCHANGED token

ResubmitError_Propagates(c) == TokenFlowError(c, "resubmit")

\* a rejection of the form submit, the navigation or waitForLoadState: the
\* inner catch ignores it
ResubmitError(c) == Return([c EXCEPT !.failedAt = "resubmit"], TRUE, TRUE)

\* the form submit or the reload, waitForLoadState, then solved
Resubmit ==
  /\ captcha.pc = "resubmit"
  /\ \E ok \in BOOLEAN :
       CaptchaStep(IF ok THEN Return(captcha, TRUE, TRUE)
                   ELSE ResubmitError(captcha))
  /\ UNCHANGED token

InitCaptcha ==
  /\ InitHelper
  /\ InitCalls
  /\ token = NoCall
  /\ captcha \in {[NoCaptcha EXCEPT !.pc = "start", !.apiKey = k,
                                     !.extension = e, !.helper = h] :
                    k \in BOOLEAN, e \in BOOLEAN, h \in BOOLEAN}

NextCaptcha ==
  \/ CaptchaUrl
  \/ AcceptConsent
  \/ DetectWidget
  \/ RecoverSitekey
  \/ ExtensionWait
  \/ HelperSolve
  \/ CallSolve
  \/ SolveStart
  \/ PostToken
  \/ PollTicket
  \/ TypesExhausted
  \/ TokenBack
  \/ InjectToken
  \/ WaitAfterInject
  \/ Resubmit

SpecCaptcha == InitCaptcha /\ [][NextCaptcha]_vars

\* -------------------------------------------------------------- goToNextPage
selectors ==
  <<"a#pnnext", "a#pnnext span.oeN89d", "a[aria-label=\"Next page\"]",
    "a[aria-label=\"Next\"]">>

PagerStep(p) ==
  /\ pager' = p
  /\ UNCHANGED <<inputs, config, main, session, hist, token, captcha, extractor,
               csv>>

\* the end of one pass of the for loop without a return: the next
\* selector, or return false after the last one
NextSelector(p, outcome) ==
  IF p.sel = Len(selectors)
  THEN [p EXCEPT !.pc = "returned", !.tried = Append(@, outcome),
                 !.result = FALSE]
  ELSE [p EXCEPT !.pc = "query", !.sel = @ + 1,
                 !.tried = Append(@, outcome),
                 !.clickFailed = FALSE, !.waitFailed = FALSE]

\* const el = await page.$(sel); if (el) ...
PagerQuery ==
  /\ pager.pc = "query"
  /\ \E el \in {"element", "null", "threw"} :
       PagerStep(CASE el = "element" -> [pager EXCEPT !.pc = "scroll"]
                   [] el = "null" -> NextSelector(pager, "noMatch")
                   [] el = "threw" -> NextSelector(pager, "queryThrew"))

\* await el.scrollIntoViewIfNeeded()
PagerScroll ==
  /\ pager.pc = "scroll"
  /\ \E ok \in BOOLEAN :
       PagerStep(IF ok THEN [pager EXCEPT !.pc = "delay"]
                 ELSE NextSelector(pager, "scrollThrew"))

\* await page.waitForTimeout(500 + ...)
PagerDelay ==
  /\ pager.pc = "delay"
  /\ \E ok \in BOOLEAN :
       PagerStep(IF ok THEN [pager EXCEPT !.pc = "click"]
                 ELSE NextSelector(pager, "delayThrew"))

AfterClickError_Propagates(p) == NextSelector(p, "clickThrew")

\* el.click and the page.click fallback both threw: the inner catch is empty
AfterClickError(p) ==
  [p EXCEPT !.pc = "waitForSelector", !.clickFailed = TRUE]

\* try { el.click } catch { try { page.click(sel) } catch {} }
PagerClick ==
  /\ pager.pc = "click"
  /\ \E click \in {"el.click", "page.click", "threw"} :
       PagerStep(IF click = "threw" THEN AfterClickError(pager)
                 ELSE [pager EXCEPT !.pc = "waitForSelector",
                                    !.clicks = @ + 1])

\* try { await page.waitForSelector('div#search', ...) } catch {}
PagerWaitForSelector ==
  /\ pager.pc = "waitForSelector"
  /\ \E ok \in BOOLEAN :
       PagerStep([pager EXCEPT !.pc = "settle", !.waitFailed = ~ok])

\* await page.waitForTimeout(1000 + ...); return true
PagerSettle ==
  /\ pager.pc = "settle"
  /\ \E ok \in BOOLEAN :
       PagerStep(IF ok THEN [pager EXCEPT !.pc = "returned",
                                          !.tried = Append(@, "done"),
                                          !.result = TRUE]
                 ELSE NextSelector(pager, "settleThrew"))

InitPager ==
  /\ InitHelper
  /\ token = NoCall
  /\ captcha = NoCaptcha
  /\ extractor = NoExtractor
  /\ csv = NoCsv
  /\ pager = [NoPager EXCEPT !.pc = "query"]

NextPager ==
  \/ PagerQuery
  \/ PagerScroll
  \/ PagerDelay
  \/ PagerClick
  \/ PagerWaitForSelector
  \/ PagerSettle

SpecPager == InitPager /\ [][NextPager]_vars

\* --------------------------------------------------------------- appendToCSV
Comma == ","

Quote == "\""

Newline == "\n"

\* s.replace(/"/g, '""')
RECURSIVE DoubleQuotes(_)
DoubleQuotes(v) ==
  IF v = <<>> THEN <<>>
  ELSE (IF Head(v) = Quote THEN <<Quote, Quote>> ELSE <<Head(v)>>)
       \o DoubleQuotes(Tail(v))

escapeCsv(v) ==
  IF \E k \in 1..Len(v) : v[k] \in {Comma, Quote, Newline}
  THEN <<Quote>> \o DoubleQuotes(v) \o <<Quote>>
  ELSE v

\* the header line 'email,query,timestamp'
HeaderLine ==
  <<"e","m","a","i","l",",","q","u","e","r","y",",",
    "t","i","m","e","s","t","a","m","p">>

\* the template literal of appendToCSV for one row
RowLine(r) == escapeCsv(r.email) \o <<Comma>> \o escapeCsv(r.timestamp)

\* rows.map(...).join('\n') + '\n', as the lines it adds to the file
RowLines(rows) == [k \in 1..Len(rows) |-> RowLine(rows[k])]

\* a stand-in for (new Date()).toISOString()
Timestamp == <<"1","T","2","Z">>

\* the query texts of the rows: a plain one and one with a comma
QueryTexts == {<<"q">>, <<"x",",","y">>}

\* newEmails.map(e => ({ email: e, query, timestamp }))
Rows(newEmails, query) ==
  [k \in 1..Len(newEmails) |->
     [email |-> newEmails[k], query |-> query, timestamp |-> Timestamp]]

\* the non-empty batches of new identities a page can give
Batches == {<<W_ab>>, <<W_cd>>, <<W_ab, W_cd>>}

CsvStep(c) ==
  /\ csv' = c
  /\ UNCHANGED <<inputs, config, main, session, hist, token, captcha, pager,
                 extractor>>

\* the header check at start-up: the header is written to a missing file
\* and to a file with another first line; a failure exits the process
EnsureHeader ==
  /\ csv.pc = "header"
  /\ \E ok \in BOOLEAN :
       CsvStep(IF ~ok THEN [csv EXCEPT !.pc = "exit"]
               ELSE IF csv.exists /\ csv.lines # <<>>
                       /\ csv.lines[1] = HeaderLine
               THEN [csv EXCEPT !.pc = "ready", !.base = Len(csv.lines)]
               ELSE [csv EXCEPT !.pc = "ready", !.exists = TRUE,
                                !.lines = <<HeaderLine>>, !.base = 1])

\* appendToCSV(rows): a throwing appendFileSync is logged and the file is
\* as before
AppendToCSV ==
  /\ csv.pc = "ready"
  /\ csv.appends < MaxPages
  /\ \E newEmails \in Batches, query \in QueryTexts, ok \in BOOLEAN :
       LET rows == Rows(newEmails, query)
       IN CsvStep(IF ok THEN [csv EXCEPT !.lines = @ \o RowLines(rows),
                                         !.handed = @ \o rows,
                                         !.appends = @ + 1]
                  ELSE [csv EXCEPT !.appends = @ + 1])

InitCsv ==
  /\ InitHelper
  /\ token = NoCall
  /\ captcha = NoCaptcha
  /\ pager = NoPager
  /\ extractor = NoExtractor
  /\ csv \in {[NoCsv EXCEPT !.pc = "header"],
               [NoCsv EXCEPT !.pc = "header", !.exists = TRUE,
                             !.lines = <<HeaderLine>>],
               [NoCsv EXCEPT !.pc = "header", !.exists = TRUE,
                             !.lines = <<W_ab \o <<Comma>> \o Timestamp>>]}

NextCsv ==
  \/ EnsureHeader
  \/ AppendToCSV

SpecCsv == InitCsv /\ [][NextCsv]_vars

\* ----------------------------------------------------- extractEmailsFromPage
ExtractorStep(e) ==
  /\ extractor' = e
  /\ UNCHANGED <<inputs, config, main, session, hist, token, captcha,
               pager, csv>>

\* page.evaluate(() => document.body ? document.body.innerText : ''); a
\* rejection is caught and the result is []
EvaluateText ==
  /\ extractor.pc = "evaluate"
  /\ \E res \in {"innerText", "noBody", "threw"} :
       ExtractorStep(
         CASE res = "innerText" -> [extractor EXCEPT !.pc = "match",
                                                     !.text = extractor.body]
           [] res = "noBody" -> [extractor EXCEPT !.pc = "match",
                                                  !.text = <<>>]
           [] res = "threw" -> [extractor EXCEPT !.pc = "returned",
                                                 !.threw = TRUE])

\* text.match(EMAIL_REGEX) || []
MatchText ==
  /\ extractor.pc = "match"
  /\ ExtractorStep([extractor EXCEPT !.pc = "map",
                                     !.emails = MatchAll(extractor.text, 1)])

\* .map(e => e.toLowerCase())
MapLower ==
  /\ extractor.pc = "map"
  /\ ExtractorStep([extractor EXCEPT
                      !.pc = "filter",
                      !.emails = [k \in DOMAIN @ |-> toLowerCase(@[k])]])

\* .filter(e => !deny.test(e))
FilterDenied ==
  /\ extractor.pc = "filter"
  /\ ExtractorStep([extractor EXCEPT !.pc = "returned",
                                     !.emails = SelectSeq(@, NotDenied)])

InitExtract ==
  /\ InitHelper
  /\ token = NoCall
  /\ captcha = NoCaptcha
  /\ pager = NoPager
  /\ csv = NoCsv
  /\ extractor \in {[NoExtractor EXCEPT !.pc = "evaluate", !.body = b] :
                      b \in AllTexts}

NextExtract ==
  \/ EvaluateText
  \/ MatchText
  \/ MapLower
  \/ FilterDenied

SpecExtract == InitExtract /\ [][NextExtract]_vars

\* ------------------------------------------------------------- configuration
DefaultCeiling == 3

Radix == 10

DecimalDigits == <<"0","1","2","3","4","5","6","7","8","9">>

DigitValue(c) == (CHOOSE d \in DOMAIN DecimalDigits : DecimalDigits[d] = c) - 1

RECURSIVE SkipSpaces(_)
SkipSpaces(text) ==
  IF text # <<>> /\ Head(text) = " " THEN SkipSpaces(Tail(text)) ELSE text

\* the value of the longest prefix of decimal digits
RECURSIVE PrefixValue(_, _)
PrefixValue(text, acc) ==
  IF text = <<>> \/ Head(text) \notin Digits THEN acc
  ELSE PrefixValue(Tail(text), acc * Radix + DigitValue(Head(text)))

\* parseInt(text, 10): leading blanks, a sign, then digits; NaN without
\* a digit there
parseInt(text) ==
  LET t == SkipSpaces(text)
      signed == t # <<>> /\ Head(t) \in {"-", "+"}
      body == IF signed THEN Tail(t) ELSE t
  IN IF body = <<>> \/ Head(body) \notin Digits THEN NaN
     ELSE IF signed /\ Head(t) = "-" THEN Num(0 - PrefixValue(body, 0))
     ELSE Num(PrefixValue(body, 0))

\* the decimal text of a non-negative integer
RECURSIVE DecimalText(_)
DecimalText(n) ==
  IF n < Radix THEN <<DecimalDigits[n + 1]>>
  ELSE DecimalText(n \div Radix) \o <<DecimalDigits[(n % Radix) + 1]>>

\* String(x)
String(x) ==
  IF x.nan THEN <<"N","a","N">>
  ELSE IF x.val < 0 THEN <<"-">> \o DecimalText(0 - x.val)
  ELSE DecimalText(x.val)

\* Math.max(a, b): NaN when an argument is NaN
MathMax(a, b) ==
  IF a.nan \/ b.nan THEN NaN
  ELSE IF a.val >= b.val THEN a ELSE b

\* a * b
Times(a, b) == IF a.nan \/ b.nan THEN NaN ELSE Num(a.val * b.val)

\* a + b
Plus(a, b) == IF a.nan \/ b.nan THEN NaN ELSE Num(a.val + b.val)

\* a < b: false when an operand is NaN
Less(a, b) == ~a.nan /\ ~b.nan /\ a.val < b.val

\* process.env.X || fallback: an unset or empty option gives the fallback
OrText(option, fallback) ==
  IF option.set /\ option.text # <<>> THEN option.text ELSE fallback

\* x || fallback on numbers: NaN and 0 give the fallback
OrNumber(x, fallback) == IF x.nan \/ x.val = 0 THEN fallback ELSE x

\* ToIntegerOrInfinity on a slice bound: NaN is 0
ToInteger(x) == IF x.nan THEN 0 ELSE x.val

\* queries.slice(from, to), as positions of the list
SliceTo(from, to) ==
  {i \in 1..N : ToInteger(from) < i /\ i <= ToInteger(to)}

\* the texts an option is set to: empty, zero, negative, numeric, other
OptionTexts == {<<>>, <<"0">>, <<"-","1">>, <<"2">>, <<"x">>}

Options == {Unset} \cup {[set |-> TRUE, text |-> t] : t \in OptionTexts}

ConfigStep(c) ==
  /\ config' = c
  /\ UNCHANGED <<inputs, main, session, hist, token, captcha, pager,
                 extractor, csv>>

\* the three const declarations of the module
LoadConfig ==
  /\ config.pc = "config"
  /\ LET browsers ==
           MathMax(Num(1), parseInt(OrText(config.env.BROWSERS, <<"1">>)))
         tabs ==
           MathMax(Num(1),
                   parseInt(OrText(config.env.TABS_PER_BROWSER, <<"1">>)))
         ceiling ==
           MathMax(Num(1),
                   parseInt(OrText(config.env.CONCURRENCY,
                                   String(OrNumber(Times(browsers, tabs),
                                                   Num(DefaultCeiling))))))
     IN ConfigStep([config EXCEPT !.pc = "readCSV", !.BROWSERS = browsers,
                                  !.TABS_PER_BROWSER = tabs,
                                  !.CONCURRENCY = ceiling])

\* readCSV and the empty-input exit, then chromium.launch
ConfigReadCSV ==
  /\ config.pc = "readCSV"
  /\ \E launched \in BOOLEAN :
       ConfigStep([config EXCEPT !.pc = IF N = 0 \/ ~launched THEN "exit"
                                        ELSE "batch"])

\* one pass of the while loop: the slice, a session per query of it, the
\* await of all of them, idx += CONCURRENCY
BatchPass ==
  /\ config.pc = "batch"
  /\ Less(config.idx, Num(N))
  /\ ConfigStep([config EXCEPT
                   !.started = @ \cup SliceTo(config.idx,
                                              Plus(config.idx,
                                                   config.CONCURRENCY)),
                   !.idx = Plus(@, config.CONCURRENCY)])

\* the end of the loop: browser.close and 'All queries completed'
Completed ==
  /\ config.pc = "batch"
  /\ ~Less(config.idx, Num(N))
  /\ ConfigStep([config EXCEPT !.pc = "done"])

InitConfig ==
  /\ queries \in {[k \in 1..m |-> k] : m \in 0..MaxQueries}
  /\ CONCURRENCY = 1
  /\ supabase = FALSE
  /\ pageLimit = [i \in QueryIds |-> 1]
  /\ watched = {}
  /\ pageTexts = FewTexts
  /\ InitMain
  /\ token = NoCall
  /\ captcha = NoCaptcha
  /\ InitCalls
  /\ config \in {[NoConfig EXCEPT !.pc = "config",
                                   !.env = [BROWSERS |-> b,
                                            TABS_PER_BROWSER |-> t,
                                            CONCURRENCY |-> c]] :
                   b \in Options, t \in Options, c \in Options}

NextConfig ==
  \/ LoadConfig
  \/ ConfigReadCSV
  \/ BatchPass
  \/ Completed

SpecConfig == InitConfig /\ [][NextConfig]_vars

\* ------------------------------------------------------------ specifications
Next ==
  \/ ReadCSV
  \/ Launch
  \/ StartBatch
  \/ AwaitBatch
  \/ CloseBrowser
  \/ \E i \in QueryIds : NewContext(i)
  \/ \E i \in QueryIds : NewPage(i)
  \/ \E i \in QueryIds : Goto(i)
  \/ \E i \in QueryIds : Detect(i)
  \/ \E i \in QueryIds : RecoveryDelay(i)
  \/ \E i \in QueryIds : Extract(i)
  \/ \E i \in QueryIds : SaveToSupabase(i)
  \/ \E i \in QueryIds : GoToNextPage(i)
  \/ \E i \in QueryIds : Sleep(i)
  \/ \E i \in QueryIds : Finally(i)

SpecSession == InitSession /\ [][Next]_vars

SpecSched == InitSched /\ [][Next]_vars

Spec == SpecSched

\* -------------------------------------------------------------------- claims
Stopped(i) == session[i].pc \in {"finally", "resolved"}

\* C1 as stated: a session whose every detection call reports a challenge
\* present and unresolved makes at most 3 detection calls and stops as
\* blocked after exactly 3, whatever the paginator answers.
C1_BlockedAfterThree ==
  \A i \in watched :
    (hist[i].detections >= 1 /\ hist[i].allUnsolved) =>
      /\ hist[i].detections <= CaptchaLimit
      /\ Stopped(i) =>
           (hist[i].outcome = "blocked" /\ hist[i].detections = CaptchaLimit)

\* C1 amended: the same, for the sessions whose paginator reported a next
\* page on each of its calls.
C1_BlockedAfterThreeWithNext ==
  \A i \in watched :
    (hist[i].detections >= 1 /\ hist[i].allUnsolved /\ hist[i].allNext) =>
      /\ hist[i].detections <= CaptchaLimit
      /\ Stopped(i) =>
           (hist[i].outcome = "blocked" /\ hist[i].detections = CaptchaLimit)

C1_Witness ==
  \E i \in watched :
    /\ session[i].pc = "resolved"
    /\ hist[i].allUnsolved /\ hist[i].allNext
    /\ hist[i].detections = 3 /\ hist[i].paginations = 2
    /\ hist[i].outcome = "blocked"

\* C2: within a session no record identity is handed to the persistence
\* collaborators more than once.
C2_HandedOnce ==
  \A i \in watched : \A e \in DOMAIN hist[i].handed : hist[i].handed[e] <= 1

\* C3: a session that acquired a browser context and has ended released it
\* exactly once, and no session releases more than once.
C3_ReleasedOnce ==
  \A i \in 1..N :
    /\ hist[i].closes <= 1
    /\ (session[i].pc \in Terminal /\ session[i].context # "none") =>
         hist[i].closes = 1

\* C4: the sessions started and not yet terminal never outnumber the
\* concurrency ceiling.
C4_Ceiling == Cardinality({i \in QueryIds : Running(i)}) <= CONCURRENCY

C4_Witness ==
  /\ CONCURRENCY >= 2
  /\ N > CONCURRENCY
  /\ Cardinality({i \in QueryIds : Running(i)}) = CONCURRENCY

BatchOf(i) == (i - 1) \div CONCURRENCY

\* C5: the batches are the consecutive slices of size C (the last one the
\* remainder), a session starts only after every session of the earlier
\* batches is terminal, every query gets exactly one session, and the
\* browser is closed only after every session is terminal.
C5_Batches ==
  /\ \A i \in QueryIds : hist[i].started <= 1
  /\ \A k \in 1..Len(batches) :
       batches[k] = Min(CONCURRENCY, N - (k - 1) * CONCURRENCY)
  /\ \A i, j \in 1..N :
       (BatchOf(j) < BatchOf(i) /\ session[i].pc # "idle") =>
         session[j].pc \in Terminal
  /\ (mainpc = "done" \/ browser = "closed") =>
       \A i \in 1..N : hist[i].started = 1 /\ session[i].pc \in Terminal

C5_Witness ==
  /\ mainpc = "done"
  /\ N = 3 /\ CONCURRENCY = 2
  /\ batches = <<2, 1>>
  /\ \A i \in 1..N : session[i].pc \in Terminal

FailedSession(i) == hist[i].outcome \in {"rejected", "error"}

\* C6: a failed session does not abort its batch: the process does not
\* exit on it, the batch is joined only when all its sessions are terminal,
\* and the browser is closed only after every query had its session.
C6_FailureContained ==
  \A i \in 1..N :
    FailedSession(i) =>
      /\ mainpc # "exit"
      /\ \A j \in 1..N :
           (BatchOf(j) = BatchOf(i) /\ idx > i - 1 - ((i - 1) % CONCURRENCY)) =>
             session[j].pc \in Terminal
      /\ browser = "closed" =>
           \A j \in 1..N : hist[j].started = 1 /\ session[j].pc \in Terminal

C6_Witness ==
  /\ mainpc = "done"
  /\ N = 3 /\ CONCURRENCY = 2
  /\ hist[1].outcome = "rejected"
  /\ hist[2].outcome = "exhausted"
  /\ hist[3].outcome = "exhausted"

\* C7: a session whose paginator reported no next page on its first call
\* has made exactly one extraction pass and has stopped as exhausted.
C7_OnePassThenExhausted ==
  \A i \in watched :
    hist[i].firstNext = "noNext" =>
      /\ hist[i].extractions = 1
      /\ hist[i].paginations = 1
      /\ hist[i].outcome = "exhausted"
      /\ Stopped(i)

C7_Witness ==
  \E i \in watched :
    /\ hist[i].firstNext = "noNext"
    /\ session[i].pc = "resolved"
    /\ hist[i].extractions = 1

IterationOver(i) ==
  session[i].pc \in {"saveToSupabase", "goToNextPage", "sleep", "finally",
                     "resolved"}

\* C9 as stated: an iteration whose detection was present and unresolved,
\* the one reaching the blocked threshold included, performs an extraction
\* pass.
C9_ExtractsWhenUnresolved ==
  \A i \in watched :
    (hist[i].lastClass = "unresolved" /\ IterationOver(i)) =>
      hist[i].extractions = hist[i].detections

\* C9 amended: every iteration extracts, whatever its classification, except
\* the one that stops the session at the blocked threshold and one whose
\* recovery delay throws: the passes equal the detections, less the one
\* pending or skipped.
C9_ExtractsUnlessStopped ==
  \A i \in watched :
    hist[i].extractions =
      hist[i].detections
        - (IF \/ session[i].pc \in {"waitForTimeout", "extractEmailsFromPage"}
              \/ hist[i].outcome \in {"blocked", "error"}
           THEN 1 ELSE 0)

C9_Witness ==
  \E i \in watched :
    /\ hist[i].lastClass = "unresolved"
    /\ session[i].consecutiveCaptcha = 2
    /\ session[i].pc = "goToNextPage"
    /\ hist[i].extractions = 2 /\ hist[i].detections = 2

\* C10 as stated: a session stops only through the blocked-query or the
\* exhausted-results condition, never through an error thrown in an
\* iteration.
C10_StopsOnlyBlockedOrExhausted ==
  \A i \in watched :
    Stopped(i) => hist[i].outcome \in {"blocked", "exhausted"}

\* C10 amended: a failure inside detection, extraction or a persistence
\* write leaves the session in its loop, at the next step of the iteration;
\* the one error that ends a session is a rejected recovery delay.
C10_HelperFailuresContained ==
  \A i \in watched :
    /\ hist[i].lastStepFail =>
         /\ session[i].pc \in {"extractEmailsFromPage", "saveToSupabase",
                               "goToNextPage"}
         /\ hist[i].outcome = "none"
    /\ Stopped(i) =>
         \/ hist[i].outcome \in {"blocked", "exhausted"}
         \/ hist[i].outcome = "error" /\ hist[i].errAt = "waitForTimeout"

C10_Witness ==
  \E i \in watched :
    /\ hist[i].firstFailAt = 1
    /\ hist[i].detections = 2
    /\ session[i].pc = "extractEmailsFromPage"

\* the order the claim gives: the hint first if present, then the three
\* fallback types, none twice
Priority(h) ==
  IF h = "none" THEN Fallback
  ELSE <<h>> \o SelectSeq(Fallback, LAMBDA x : x # h)

IsPrefix(a, b) == Len(a) <= Len(b) /\ a = SubSeq(b, 1, Len(a))

\* C8: the types are submitted in priority order, the call returns the
\* token of the type that yielded one and submits no type after it, and a
\* failed earlier type (invalid type, 429, rejected request, exhausted poll)
\* does not keep the later types from being tried.
C8_TypeOrder ==
  /\ IsPrefix(token.submitted, Priority(token.typeHint))
  /\ \A k \in 1..(Len(token.answers) - 1) :
       token.answers[k] \notin {"token"}
  /\ (token.pc = "returned" /\ token.result # Null) =>
       /\ token.submitted # <<>>
       /\ token.result.type = token.submitted[Len(token.submitted)]
       /\ token.answers[Len(token.answers)] \in {"token", "ticket"}
  /\ (token.pc = "returned" /\ token.result = Null /\ token.apiKey) =>
       token.submitted = Priority(token.typeHint)

C8_Witness ==
  /\ token.pc = "returned"
  /\ token.typeHint = "hcaptcha"
  /\ token.answers = <<"invalidType", "rateLimited", "threw", "ticket">>
  /\ token.result = [type |-> "recaptcha_enterprise", field |-> "solution"]

TokenObtained == token.pc = "returned" /\ token.result # Null

\* C11 as stated: once the service returned a token, challenge handling
\* reports solved, also when the injection or the re-submission throws.
C11_SolvedOnceToken ==
  (captcha.pc = "returned" /\ TokenObtained) => captcha.result.solved

\* C11 amended: with a token, challenge handling reports the challenge
\* present, and solved unless the injection or the wait after it threw; a
\* failing re-submission still reports solved.
C11_SolvedUnlessInjectionThrew ==
  (captcha.pc = "returned" /\ TokenObtained) =>
    /\ captcha.result.present
    /\ captcha.result.solved = (captcha.failedAt \notin {"inject", "wait600"})

C11_Witness ==
  /\ captcha.pc = "returned"
  /\ TokenObtained
  /\ captcha.failedAt = "resubmit"
  /\ captcha.result = [present |-> TRUE, solved |-> TRUE]

\* C12: a call that detected a challenge and recovered no solving key
\* reports present and unsolved and sends no request to the service.
C12_NoKeyNoRequest ==
  (captcha.pc = "returned" /\ captcha.detected /\ ~captcha.sitekey) =>
    /\ captcha.result = [present |-> TRUE, solved |-> FALSE]
    /\ token.pc = "idle"
    /\ ~captcha.helperCalled

\* C13: without the credential a call that detected a challenge reports
\* unsolved and sends no request to the service, with or without a key and
\* with or without the helper.
C13_NoCredentialUnsolved ==
  (captcha.pc = "returned" /\ captcha.detected /\ ~captcha.apiKey) =>
    /\ ~captcha.result.solved
    /\ token.submitted = <<>>

Tried == {pager.tried[k] : k \in 1..Len(pager.tried)}

Matched == Tried \ {"noMatch", "queryThrew"} # {}

\* C14 as stated: the paginator returns false only if no selector matched
\* an element; a matched element gives true whatever fails afterwards.
C14_FalseOnlyIfNoMatch ==
  (pager.pc = "returned" /\ ~pager.result) => ~Matched

\* C14 amended: the paginator returns true iff for some selector the
\* element was found, scrolled into view and both delays completed; a
\* failing click or wait for the results is tolerated. It returns false
\* only after all selectors, each of which matched nothing or threw in
\* the lookup, the scroll or one of the two delays.
C14_TrueIffSelectorCompleted ==
  pager.pc = "returned" =>
    /\ pager.result = ("done" \in Tried)
    /\ pager.result => pager.tried[Len(pager.tried)] = "done"
    /\ ~pager.result =>
         /\ Len(pager.tried) = Len(selectors)
         /\ Tried \subseteq {"noMatch", "queryThrew", "scrollThrew",
                             "delayThrew", "settleThrew"}

C14_Witness ==
  /\ pager.pc = "returned"
  /\ pager.result
  /\ pager.clickFailed
  /\ pager.waitFailed
  /\ "scrollThrew" \in Tried

\* C15: the shared browser is closed only when every session that acquired
\* a browsing context has released it, also when a session failed.
C15_ClosedAfterAllReleased ==
  browser = "closed" => \A i \in QueryIds : session[i].context # "open"

\* C16: a failed persistence write (file append or store insert) does not
\* abort the session: right after it the session is still running without
\* an outcome, on its way to pagination, its seen set holds every
\* identity handed over and its counters are those of the iteration.
C16_WriteFailureContained ==
  \A i \in watched :
    hist[i].writeFailed =>
      /\ session[i].pc \in {"saveToSupabase", "goToNextPage"}
      /\ hist[i].outcome = "none"
      /\ hist[i].errAt = "none"
      /\ session[i].context = "open"
      /\ session[i].collected = DOMAIN hist[i].handed
      /\ session[i].collected # {}
      /\ hist[i].extractions = hist[i].detections
      /\ session[i].pageNum = hist[i].paginations + 1

C16_Witness ==
  \E i \in watched :
    /\ hist[i].writeFailed
    /\ session[i].pc = "goToNextPage"
    /\ supabase
    /\ session[i].pageNum > 1

\* the fields a reader of the file finds in one line: commas outside
\* quotes separate them, a doubled quote inside quotes is one quote
RECURSIVE SplitFrom(_, _, _, _, _)
SplitFrom(line, k, inQuote, field, fields) ==
  IF k > Len(line) THEN Append(fields, field)
  ELSE IF inQuote
  THEN IF line[k] # Quote
       THEN SplitFrom(line, k + 1, TRUE, Append(field, line[k]), fields)
       ELSE IF k < Len(line) /\ line[k + 1] = Quote
       THEN SplitFrom(line, k + 2, TRUE, Append(field, Quote), fields)
       ELSE SplitFrom(line, k + 1, FALSE, field, fields)
  ELSE IF line[k] = Comma
  THEN SplitFrom(line, k + 1, FALSE, <<>>, Append(fields, field))
  ELSE IF line[k] = Quote
  THEN SplitFrom(line, k + 1, TRUE, field, fields)
  ELSE SplitFrom(line, k + 1, FALSE, Append(field, line[k]), fields)

SplitCsv(line) == SplitFrom(line, 1, FALSE, <<>>, <<>>)

\* C17: every row appended to the output file carries the three fields of
\* the header in order (email, query, timestamp) of the record handed over.
C17_RowsCarryHeaderFields ==
  \A k \in 1..Len(csv.handed) :
    LET fields == SplitCsv(csv.lines[csv.base + k])
        r == csv.handed[k]
    IN /\ Len(fields) = Len(SplitCsv(HeaderLine))
       /\ fields = <<r.email, r.query, r.timestamp>>

\* the distinct lower-cased, non-deny-listed addresses the text holds
Identities(text) ==
  {e \in {toLowerCase(m) : m \in Range(MatchAll(text, 1))} : NotDenied(e)}

\* C18: the result of the extractor holds each matched address lower-cased
\* exactly once and no deny-listed address; a text without a non-deny-listed
\* address gives an empty result.
C18_DistinctIdentities ==
  (extractor.pc = "returned" /\ ~extractor.threw) =>
    /\ Range(extractor.emails) = Identities(extractor.text)
    /\ \A k \in DOMAIN extractor.emails : NotDenied(extractor.emails[k])
    /\ \A j, k \in DOMAIN extractor.emails :
         extractor.emails[j] = extractor.emails[k] => j = k
    /\ Identities(extractor.text) = {} => extractor.emails = <<>>

\* the part of C18 that is not about repetition
C18_LowercasedNotDenied ==
  (extractor.pc = "returned" /\ ~extractor.threw) =>
    /\ Range(extractor.emails) = Identities(extractor.text)
    /\ \A k \in DOMAIN extractor.emails : NotDenied(extractor.emails[k])
    /\ Identities(extractor.text) = {} => extractor.emails = <<>>

\* C19: the consecutive counter is the number of present-and-unresolved
\* detections since the last clear or resolved one (zero right after such
\* a detection), it lies in 0..3, and a session stops as blocked only
\* when its last three detections were all present-and-unresolved.
C19_CounterIsTrailingRun ==
  \A i \in watched :
    /\ session[i].consecutiveCaptcha = hist[i].run
    /\ session[i].consecutiveCaptcha \in 0..CaptchaLimit
    /\ hist[i].lastClass \in {"clear", "resolved"} =>
         session[i].consecutiveCaptcha = 0
    /\ hist[i].outcome = "blocked" =>
         (hist[i].run = CaptchaLimit /\ hist[i].lastClass = "unresolved")

C19_Witness ==
  \E i \in watched :
    /\ hist[i].outcome = "blocked"
    /\ ~hist[i].allUnsolved
    /\ hist[i].detections > CaptchaLimit
    /\ session[i].consecutiveCaptcha = CaptchaLimit

C20_Bounded ==
  /\ Len(token.submitted) <= Len(token.types)
  /\ Len(token.types) <= Len(Fallback) + 1
  /\ \A j, k \in DOMAIN token.submitted :
       token.submitted[j] = token.submitted[k] => j = k
  /\ token.polls <= PollLimit
  /\ (token.pc = "returned" /\ token.t > Len(token.types)) =>
       token.result = Null

\* C20: a token-acquisition call terminates whatever the service answers:
\* no type is submitted twice, no ticket is polled more than 20 times,
\* failing polls included, and a call that exhausted its types returns null.
C20_Terminates == []C20_Bounded /\ <>(token.pc = "returned")

C20_Witness ==
  /\ token.pc = "returned"
  /\ token.result = Null
  /\ Len(token.submitted) = Len(Fallback) + 1
  /\ token.polls = PollLimit
  /\ token.t > Len(token.types)

\* C21: a session does not wait for a persistence write: while the
\* structured-store write it started is outstanding, the session can take
\* its pagination step.
C21_PaginationNotBlocked ==
  \A i \in watched :
    (supabase /\ session[i].pc = "saveToSupabase") => ENABLED GoToNextPage(i)

\* the state of a session that is private to it
Private(s) ==
  <<s.collected, s.pageNum, s.consecutiveCaptcha, s.context>>

\* C22: a step of a running session leaves the seen set, the page counter,
\* the consecutive counter and the browsing context of every other session
\* unchanged, whatever the interleaving.
C22_OtherSessionsUnchanged ==
  [][\A i \in QueryIds :
       (Running(i) /\ session'[i] # session[i]) =>
         \A j \in QueryIds \ {i} : Private(session'[j]) = Private(session[j])]_vars

C22_Witness ==
  \E i, j \in QueryIds :
    /\ i # j
    /\ session[i].pc = "goToNextPage" /\ session[j].pc = "sleep"
    /\ session[i].collected = {}
    /\ session[j].collected # {}
    /\ session[i].pageNum # session[j].pageNum
    /\ session[i].context = "open" /\ session[j].context = "open"

PositiveInteger(x) == ~x.nan /\ x.val >= 1

\* C23: whatever the options are set to, the effective ceiling is a
\* positive integer, instances x tabs when its option is unset, and a run
\* on a non-empty list that reports completion started a session for every
\* query.
C23_CeilingPositive ==
  config.pc \in {"readCSV", "batch", "done"} =>
    /\ PositiveInteger(config.CONCURRENCY)
    /\ (~config.env.CONCURRENCY.set /\ PositiveInteger(config.BROWSERS)
        /\ PositiveInteger(config.TABS_PER_BROWSER)) =>
         config.CONCURRENCY = Times(config.BROWSERS, config.TABS_PER_BROWSER)
    /\ config.pc = "done" => config.started = 1..N

\* what holds of C23 when the ceiling option is unset, empty or starts
\* with digits
C23_NumericCeiling ==
  (config.pc \in {"readCSV", "batch", "done"}
   /\ ~parseInt(OrText(config.env.CONCURRENCY, <<"1">>)).nan) =>
    /\ PositiveInteger(config.CONCURRENCY)
    /\ config.pc = "done" => config.started = 1..N

====
